---- MODULE Spec2Model ----
(***************************************************************************)
(* Barnes_Hut (cpp/src/tsne/barnes_hut.h): the host function that drives   *)
(* the Barnes-Hut t-SNE pipeline.  The state is the host locals, the       *)
(* life cycle of the device_buffer objects, and the device arrays the      *)
(* kernels read and write.                                                 *)
(*                                                                         *)
(* Number representation.  Floats are modelled by exact rationals:         *)
(*   - VAL      : numerators VAL.num[i] over the common denominator VAL.den*)
(*   - YY, sums : numerators over the common denominator YYden, the unit   *)
(*                of a position being 0.01                                 *)
(*   - max_bounds, gains_bh, momentum, min_gain : hundredths               *)
(*   - Z_norm   : the pair num/den                                         *)
(* Arrays keep the offsets of the code (0-based).                          *)
(***************************************************************************)
EXTENDS Integers, Naturals, Sequences, FiniteSets, TLC

VARIABLES
  n, blocks, max_iter, exaggeration_iter, min_gain, min_grad_norm,
  pca_intialization,
  NNODES, pc, ak, iter, momentum, learning_rate, max_bounds,
  ptr, live, acq, rel,
  VAL, Y, YY, YYden, gains_bh, old_forces, rep_forces, Z_norm, sums, bottomd,
  nRescale, nPipeline,
  thrown, valid,
  prms, entry, pcaPc, fitPrms, written, used

params == <<n, blocks, max_iter, exaggeration_iter, min_gain, min_grad_norm,
            pca_intialization, NNODES>>
buffers == <<ptr, live, acq, rel>>
device == <<VAL, Y, YY, YYden, gains_bh, old_forces, rep_forces, Z_norm, sums,
            bottomd>>
vars == <<params, pc, ak, iter, momentum, learning_rate, max_bounds, buffers,
          device, nRescale, nPipeline, thrown, valid, prms, entry, pcaPc,
          fitPrms, written, used>>
(* The state of Barnes_Hut and the state of the PCA entry points (pca.h) *)
bhVars == <<params, pc, ak, iter, momentum, learning_rate, max_bounds, buffers,
            device, nRescale, nPipeline, thrown, valid>>
pcaVars == <<prms, entry, pcaPc, fitPrms, written, used>>

----------------------------------------------------------------------------
(* Bounds of the model *)
MaxIter == 3
MaxN == 2
MaxBlocks == 1
(* A point count above 512 * blocks, where 2n exceeds 1024 * blocks *)
BigN == 600
(* Largest n_rows and n_cols handed to the PCA entry points *)
MaxDim == 3

(* Default arguments of Barnes_Hut *)
early_exaggeration == 12
pre_learning_rate == 200
post_learning_rate == 500
pre_momentum == 50
post_momentum == 80

(* Constants of the kernels (bh_kernels.h) *)
FACTOR1 == 3
KernelGainFloor == 1
GainInc == 20
GainDecNum == 4
GainDecDen == 5

Max(a, b) == IF a >= b THEN a ELSE b

RECURSIVE SumRange(_, _, _)
SumRange(f, lo, hi) ==
  IF lo > hi THEN 0
  ELSE IF lo = hi THEN f[lo]
  ELSE LET mid == (lo + hi) \div 2
       IN  SumRange(f, lo, mid) + SumRange(f, mid + 1, hi)

----------------------------------------------------------------------------
(* Node capacity, lines 71-80 *)
RECURSIVE RoundUp32(_)
RoundUp32(k) == IF k % 32 = 0 THEN k ELSE RoundUp32(k + 1)

NodeCapacity(nn, bl) ==
  LET nnodes0 == nn * 2
      nnodes1 == IF nnodes0 < 1024 * bl THEN 1024 * bl ELSE nnodes0
  IN  RoundUp32(nnodes1) - 1

(* Index sets of the arrays.  YY and rep_forces hold x at [0, NNODES] and  *)
(* y at [NNODES + 1, 2 * NNODES + 1]; only the first n entries of each     *)
(* half are points.  Y, gains_bh and old_forces hold x at [0, n) and y at  *)
(* [n, 2n).                                                                *)
WideIdx(nn, cap) == (0 .. (nn - 1)) \cup ((cap + 1) .. (cap + nn))
FlatIdx(nn) == 0 .. (2 * nn - 1)
WideOf(i, nn, cap) == IF i < nn THEN i ELSE cap + 1 + (i - nn)

----------------------------------------------------------------------------
(* The scratch buffers, in declaration order, and the pointers into them.  *)
Buffers == {"limiter_", "maxdepthd_", "bottomd_", "radiusd_", "rep_forces_",
            "startl_", "countl_", "childl_", "massl_", "sortl_",
            "maxxl_", "maxyl_", "minxl_", "minyl_", "Z_norm_",
            "norm_add1_", "norm_", "sums_", "gains_bh_", "old_forces_", "YY_"}

Pointers == {"limiter", "maxdepthd", "bottomd", "radiusd", "radiusd_squared",
             "rep_forces", "attr_forces", "startl", "countl", "childl", "massl",
             "sortl", "maxxl", "maxyl", "minxl", "minyl", "Z_norm",
             "norm", "norm_add1", "sums", "gains_bh", "old_forces", "YY"}

(* Conditions of the three aliasing branches, lines 110, 135, 160.         *)
SizeofFloat == 4
SizeofInt == 4
StartlAliasesRep == SizeofFloat >= SizeofInt
ReductionAliasesSort(bl, cap) ==
  4 * bl * FACTOR1 * SizeofFloat <= SizeofInt * (cap + 1)
NormAliasesChild_mut(nn, cap) ==
  (cap + 1) * 4 * SizeofInt < (nn + nn + 2) * SizeofFloat
NormAliasesChild(nn, cap) ==
  (cap + 1) * 4 * SizeofInt >= (nn + nn + 2) * SizeofFloat

(* One entry per declaration or branch of lines 87-187.  "buf" declares a  *)
(* device_buffer in function scope and takes its data() pointers; "branch" *)
(* is an if/else whose else arm declares device_buffers in block scope.    *)
Buf(b, ps) == [kind |-> "buf", bufs |-> <<b>>, ptrs |-> ps, alias |-> "none",
               cond |-> TRUE]
Branch(c, bs, ps, target) ==
  [kind |-> "branch", bufs |-> bs, ptrs |-> ps, alias |-> target, cond |-> c]

Prologue(nn, bl, cap) == <<
  Buf("limiter_", <<"limiter">>),
  Buf("maxdepthd_", <<"maxdepthd">>),
  Buf("bottomd_", <<"bottomd">>),
  Buf("radiusd_", <<"radiusd", "radiusd_squared">>),
  Buf("rep_forces_", <<"rep_forces">>),
  Branch(StartlAliasesRep, <<"startl_", "countl_">>, <<"startl", "countl">>,
         "rep_forces_"),
  Buf("childl_", <<"childl">>),
  Buf("massl_", <<"massl">>),
  Buf("sortl_", <<"sortl">>),
  Branch(ReductionAliasesSort(bl, cap),
         <<"maxxl_", "maxyl_", "minxl_", "minyl_">>,
         <<"maxxl", "maxyl", "minxl", "minyl">>, "sortl_"),
  Buf("Z_norm_", <<"Z_norm">>),
  Branch(NormAliasesChild(nn, cap), <<"norm_add1_", "norm_", "sums_">>,
         <<"norm_add1", "norm", "sums">>, "childl_"),
  Buf("gains_bh_", <<"gains_bh">>),
  Buf("old_forces_", <<"old_forces">>),
  Buf("YY_", <<"YY">>) >>

Range(s) == {s[i] : i \in 1 .. Len(s)}

(* Stack unwinding or normal return: every live device_buffer is destroyed *)
Unwind(lv, r) == [b \in Buffers |-> IF b \in lv THEN r[b] + 1 ELSE r[b]]

----------------------------------------------------------------------------
(* Inputs.  The outputs of the force kernels are inputs of the model: a   *)
(* kernel writes one of a few fields of +1 / -1, indexed like Y.           *)
Field(nn, k) ==
  [i \in FlatIdx(nn) |-> IF k = 1 \/ i % 2 = 0 THEN 1 ELSE -1]
Fields(nn) == {Field(nn, k) : k \in 1 .. 2}
RandomFields(nn) == Fields(nn)

ToWide(f, nn, cap) ==
  [j \in WideIdx(nn, cap) |-> IF j < nn THEN f[j] ELSE f[j - cap - 1 + nn]]

(* The contents of Y on entry: the caller's initial embedding, x first,    *)
(* when pca_intialization is set                                           *)
Y_entry(nn) == Field(nn, 2)

(* The affinities handed in, scaled up by early_exaggeration by the caller *)
VAL_initial == <<early_exaggeration, 3 * early_exaggeration>>

(* No PCA entry point has been called *)
NoneUsed == [fit |-> 0, transform |-> 0, inverse |-> 0, flip |-> 0]
PcaIdle ==
  /\ prms = [n_rows |-> 2, n_cols |-> 2, n_components |-> 2, whiten |-> FALSE]
  /\ entry = "none"
  /\ pcaPc = "idle"
  /\ fitPrms = prms
  /\ written = {}
  /\ used = NoneUsed

(* The state on entry.  The horizon and min_gain are in the units of the   *)
(* header; rep_forces, Z_norm, sums and bottomd stand for device memory    *)
(* not yet written.                                                        *)
Init ==
  /\ n \in (1 .. MaxN) \cup {BigN}
  /\ blocks \in 1 .. MaxBlocks
  /\ max_iter \in -1 .. MaxIter
  /\ n = BigN => max_iter <= 1
  /\ exaggeration_iter \in 0 .. MaxIter
  /\ min_gain \in {1, 90}
  /\ min_grad_norm \in {0, 1000}
  /\ min_grad_norm = 1000 => min_gain = 1
  /\ pca_intialization \in BOOLEAN
  /\ NNODES = NodeCapacity(n, blocks)
  /\ pc = "prologue"
  /\ ak = 1
  /\ iter = 0
  /\ momentum = 0
  /\ learning_rate = 0
  /\ max_bounds = 100 * 100
  /\ ptr = [p \in Pointers |-> IF p = "attr_forces" THEN "Y" ELSE "null"]
  /\ live = {}
  /\ acq = [b \in Buffers |-> 0]
  /\ rel = [b \in Buffers |-> 0]
  /\ VAL = [num |-> VAL_initial, den |-> 1]
  /\ Y = Y_entry(n)
  /\ YY = [j \in WideIdx(n, NNODES) |-> 0]
  /\ YYden = 1
  /\ gains_bh = [i \in FlatIdx(n) |-> 0]
  /\ old_forces = [i \in FlatIdx(n) |-> 0]
  /\ rep_forces = [j \in WideIdx(n, NNODES) |-> 3]
  /\ Z_norm = [num |-> 5, den |-> 1]
  /\ sums = <<7, -7>>
  /\ bottomd = 0
  /\ nRescale = 0
  /\ nPipeline = 0
  /\ thrown = "none"
  /\ valid = {"Y"}
  /\ PcaIdle

----------------------------------------------------------------------------
(* Arrays that share storage, lines 102-175.  Extent is the buffer an      *)
(* array lives in and its first and last element, in elements of 4 bytes;  *)
(* the extent of childl is the part the tree uses, the child slots from    *)
(* FOUR_N up (line 248).                                                   *)
Arrays == {"startl", "countl", "rep_forces", "maxxl", "maxyl", "minxl",
           "minyl", "sortl", "norm", "norm_add1", "sums", "childl",
           "attr_forces", "Y"}

(* countl = startl + NNODES + 1, line 112 *)
CountlOffset_mut(cap) == cap
CountlOffset(cap) == cap + 1

Piece(b, first, len) == [buf |-> b, lo |-> first, hi |-> first + len - 1]

ReductionNo(a) ==
  CASE a = "maxxl" -> 0 [] a = "maxyl" -> 1 [] a = "minxl" -> 2 [] OTHER -> 3

Extent(a, nn, bl, cap) ==
  CASE a = "rep_forces" -> Piece("rep_forces_", 0, (cap + 1) * 2)
    [] a = "startl" ->
         IF StartlAliasesRep THEN Piece("rep_forces_", 0, cap + 1)
         ELSE Piece("startl_", 0, cap + 1)
    [] a = "countl" ->
         IF StartlAliasesRep
           THEN Piece("rep_forces_", CountlOffset(cap), cap + 1)
           ELSE Piece("countl_", 0, cap + 1)
    [] a = "sortl" -> Piece("sortl_", 0, cap + 1)
    [] a \in {"maxxl", "maxyl", "minxl", "minyl"} ->
         IF ReductionAliasesSort(bl, cap)
           THEN Piece("sortl_", ReductionNo(a) * bl * FACTOR1, bl * FACTOR1)
           ELSE Piece(a \o "_", 0, bl * FACTOR1)
    [] a = "norm" ->
         IF NormAliasesChild(nn, cap) THEN Piece("childl_", 0, nn)
         ELSE Piece("norm_", 0, nn)
    [] a = "norm_add1" ->
         IF NormAliasesChild(nn, cap) THEN Piece("childl_", nn, nn)
         ELSE Piece("norm_add1_", 0, nn)
    [] a = "sums" ->
         IF NormAliasesChild(nn, cap) THEN Piece("childl_", 2 * nn, 2)
         ELSE Piece("sums_", 0, 2)
    [] a = "childl" -> Piece("childl_", 4 * nn, 4 * (cap + 1) - 4 * nn)
    [] OTHER -> Piece("Y", 0, 2 * nn)

Overlap(e, f) == e.buf = f.buf /\ e.lo <= f.hi /\ f.lo <= e.hi

(* The arrays a statement writes, and the arrays it reads that an earlier  *)
(* statement must have left for it.                                        *)
PhaseWrites(p) ==
  CASE p = "BoundingBoxKernel" ->
         {"startl", "maxxl", "maxyl", "minxl", "minyl", "childl"}
    [] p = "ClearKernel1" -> {"childl"}
    [] p = "TreeBuildingKernel" -> {"childl"}
    [] p = "ClearKernel2" -> {"startl"}
    [] p = "SummarizationKernel" -> {"countl", "childl"}
    [] p = "SortKernel" -> {"sortl", "startl"}
    [] p = "RepulsionKernel" -> {"rep_forces"}
    [] p = "get_norm" -> {"norm", "norm_add1"}
    [] p = "attractive_kernel_bh" -> {"attr_forces"}
    [] p = "IntegrationKernel" -> {"sums"}
    [] p = "mean_centre" -> {"sums"}
    [] p = "copy" -> {"Y"}
    [] OTHER -> {}

PhaseNeeds(p, pca) ==
  CASE p = "init" -> IF pca THEN {"Y"} ELSE {}
    [] p = "TreeBuildingKernel" -> {"childl"}
    [] p = "SummarizationKernel" -> {"childl"}
    [] p = "SortKernel" -> {"startl", "countl", "childl"}
    [] p = "RepulsionKernel" -> {"sortl", "childl"}
    [] p = "attractive_kernel_bh" -> {"norm", "norm_add1"}
    [] p = "IntegrationKernel" -> {"attr_forces", "rep_forces"}
    [] p = "mean_centre" -> {"sums"}
    [] OTHER -> {}

(* valid is the set of arrays whose contents are as their last writer left *)
(* them: a write under one name destroys what every array overlapping it   *)
(* held.                                                                   *)
Touch(v, p) ==
  LET ws == PhaseWrites(p)
      hit == {b \in Arrays \ ws :
                \E a \in ws : Overlap(Extent(a, n, blocks, NNODES),
                                      Extent(b, n, blocks, NNODES))}
  IN  (v \ hit) \cup ws

----------------------------------------------------------------------------
(* Prologue, lines 87-187 *)
step == Prologue(n, blocks, NNODES)[ak]
AfterStep == IF ak = Len(Prologue(n, blocks, NNODES)) THEN "init" ELSE "prologue"

(* thrust::fill / cudaMemsetAsync that follow a declaration *)
FillAfter(b) ==
  /\ gains_bh' = IF b = "gains_bh_" THEN [i \in FlatIdx(n) |-> 100] ELSE gains_bh
  /\ old_forces' = IF b = "old_forces_" THEN [i \in FlatIdx(n) |-> 0]
                   ELSE old_forces

Declare ==
  /\ pc = "prologue"
  /\ step.kind = "buf"
  /\ LET b == step.bufs[1] IN
       /\ acq' = [acq EXCEPT ![b] = @ + 1]
       /\ live' = live \cup {b}
       /\ ptr' = [p \in Pointers |-> IF p \in Range(step.ptrs) THEN b ELSE ptr[p]]
       /\ FillAfter(b)
  /\ ak' = ak + 1
  /\ pc' = AfterStep
  /\ UNCHANGED <<params, pcaVars, valid, thrown, iter, momentum,
                 learning_rate, max_bounds, rel, VAL, Y, YY, YYden,
                 rep_forces, Z_norm, sums, bottomd, nRescale, nPipeline>>

(* if: the pointers alias an existing buffer.  else: the device_buffers    *)
(* are declared inside the block and destroyed at its closing brace, the   *)
(* pointers keep the released addresses.                                   *)
AliasBranch ==
  /\ pc = "prologue"
  /\ step.kind = "branch"
  /\ IF step.cond
       THEN /\ ptr' = [p \in Pointers |->
                         IF p \in Range(step.ptrs) THEN step.alias ELSE ptr[p]]
            /\ UNCHANGED <<acq, rel>>
       ELSE /\ ptr' = [p \in Pointers |->
                         IF \E k \in 1 .. Len(step.ptrs) : step.ptrs[k] = p
                           THEN step.bufs[CHOOSE k \in 1 .. Len(step.ptrs) :
                                            step.ptrs[k] = p]
                           ELSE ptr[p]]
            /\ acq' = [b \in Buffers |->
                         IF b \in Range(step.bufs) THEN acq[b] + 1 ELSE acq[b]]
            /\ rel' = [b \in Buffers |->
                         IF b \in Range(step.bufs) THEN rel[b] + 1 ELSE rel[b]]
  /\ ak' = ak + 1
  /\ pc' = AfterStep
  /\ UNCHANGED <<params, pcaVars, valid, thrown, iter, momentum,
                 learning_rate, max_bounds, live, device, nRescale,
                 nPipeline>>

(* ASSERT / CUDA_CHECK throw an exception; Barnes_Hut has no handler, so   *)
(* control leaves the function from the throwing statement.                *)
OnThrow_mut(p) == "copy"
OnThrow(p) == "failed"

(* The allocator or a CUDA_CHECK of the prologue throws *)
PrologueFail ==
  /\ pc = "prologue"
  /\ step.kind = "buf"
  /\ rel' = Unwind(live, rel)
  /\ live' = {}
  /\ thrown' = pc
  /\ pc' = OnThrow(pc)
  /\ UNCHANGED <<params, pcaVars, valid, ak, iter, momentum, learning_rate,
                 max_bounds, ptr, acq, device, nRescale, nPipeline>>

(* Lines 193-201 and 220-221 *)
InitEmbedding ==
  /\ pc = "init"
  /\ IF pca_intialization
       THEN YY' = ToWide(Y, n, NNODES)
       ELSE YY' \in {ToWide(f, n, NNODES) : f \in RandomFields(n)}
  /\ momentum' = pre_momentum
  /\ learning_rate' = pre_learning_rate
  /\ pc' = "loop"
  /\ UNCHANGED <<params, pcaVars, valid, thrown, ak, iter, max_bounds,
                 buffers, VAL, Y, YYden, gains_bh, old_forces, rep_forces,
                 Z_norm, sums, bottomd, nRescale, nPipeline>>

----------------------------------------------------------------------------
(* The iteration loop, lines 223-356 *)
LoopCond_mut(i, m) == i <= m
LoopCond(i, m) == i < m

(* if (iter == exaggeration_iter), line 228 *)
AtHorizon_ge(i, h) == i >= h
AtHorizon_off(i, h) == i = h + 1
AtHorizon(i, h) == i = h

(* LinAlg::scalarMultiply(VAL, VAL, 1.0f / early_exaggeration, NNZ), l.231 *)
ScalarMultiply(v, e) == [num |-> v.num, den |-> v.den * e]

(* The order of the statements of the loop body *)
Pipeline == <<"BoundingBoxKernel", "ClearKernel1", "TreeBuildingKernel",
              "ClearKernel2", "SummarizationKernel", "SortKernel",
              "RepulsionKernel", "Norm", "get_norm", "attractive_kernel_bh",
              "IntegrationKernel", "mean_centre", "EndIteration">>
PhaseNo(p) == CHOOSE k \in 1 .. Len(Pipeline) : Pipeline[k] = p
NextPhase_mut(p) ==
  CASE p = "RepulsionKernel" -> "get_norm"
    [] p = "attractive_kernel_bh" -> "Norm"
    [] p = "Norm" -> "IntegrationKernel"
    [] OTHER -> IF PhaseNo(p) = Len(Pipeline) THEN "loop"
                ELSE Pipeline[PhaseNo(p) + 1]
NextPhase(p) ==
  IF PhaseNo(p) = Len(Pipeline) THEN "loop" ELSE Pipeline[PhaseNo(p) + 1]

(* Statements followed by a CUDA_CHECK *)
CheckedPhases == {"BoundingBoxKernel", "ClearKernel1", "TreeBuildingKernel",
                  "ClearKernel2", "SummarizationKernel", "SortKernel",
                  "RepulsionKernel", "get_norm", "attractive_kernel_bh",
                  "IntegrationKernel", "mean_centre"}

(* The pointers each statement hands to its kernel or memset *)
PhasePtrs(p) ==
  CASE p = "BoundingBoxKernel" ->
         {"startl", "childl", "YY", "maxxl", "maxyl", "minxl", "minyl",
          "limiter", "radiusd"}
    [] p = "ClearKernel1" -> {"childl"}
    [] p = "TreeBuildingKernel" ->
         {"bottomd", "childl", "YY", "maxdepthd", "radiusd"}
    [] p = "ClearKernel2" -> {"massl", "startl", "bottomd"}
    [] p = "SummarizationKernel" -> {"countl", "childl", "massl", "YY", "bottomd"}
    [] p = "SortKernel" -> {"sortl", "countl", "startl", "childl", "bottomd"}
    [] p = "RepulsionKernel" ->
         {"radiusd_squared", "radiusd", "rep_forces", "Z_norm", "sortl",
          "childl", "massl", "YY", "maxdepthd"}
    [] p = "Norm" -> {"Z_norm"}
    [] p = "get_norm" -> {"YY", "norm", "norm_add1"}
    [] p = "attractive_kernel_bh" -> {"YY", "norm", "norm_add1", "attr_forces"}
    [] p = "IntegrationKernel" ->
         {"sums", "YY", "attr_forces", "rep_forces", "gains_bh", "old_forces",
          "Z_norm"}
    [] p = "mean_centre" -> {"sums", "YY"}
    [] p = "copy" -> {"YY"}
    [] OTHER -> {}

LoopEnter ==
  /\ pc = "loop"
  /\ LoopCond(iter, max_iter)
  /\ ~AtHorizon(iter, exaggeration_iter)
  /\ pc' = Pipeline[1]
  /\ UNCHANGED <<params, pcaVars, valid, thrown, ak, iter, momentum,
                 learning_rate, max_bounds, buffers, device, nRescale,
                 nPipeline>>

(* Lines 228-232 *)
EndExaggeration ==
  /\ pc = "loop"
  /\ LoopCond(iter, max_iter)
  /\ AtHorizon(iter, exaggeration_iter)
  /\ momentum' = post_momentum
  /\ VAL' = ScalarMultiply(VAL, early_exaggeration)
  /\ nRescale' = nRescale + 1
  /\ pc' = Pipeline[1]
  /\ UNCHANGED <<params, pcaVars, valid, thrown, ak, iter, learning_rate,
                 max_bounds, buffers, Y, YY, YYden, gains_bh, old_forces,
                 rep_forces, Z_norm, sums, bottomd, nPipeline>>

LoopExit ==
  /\ pc = "loop"
  /\ ~LoopCond(iter, max_iter)
  /\ pc' = "copy"
  /\ UNCHANGED <<params, pcaVars, valid, thrown, ak, iter, momentum,
                 learning_rate, max_bounds, buffers, device, nRescale,
                 nPipeline>>

(* A CUDA_CHECK of the loop body throws: the stack unwinds *)
PhaseFail ==
  /\ pc \in CheckedPhases
  /\ rel' = Unwind(live, rel)
  /\ live' = {}
  /\ thrown' = pc
  /\ pc' = OnThrow(pc)
  /\ UNCHANGED <<params, pcaVars, valid, ak, iter, momentum, learning_rate,
                 max_bounds, ptr, acq, device, nRescale, nPipeline>>

(* Kernels whose arrays (tree cells, masses, sort order, norms) are not    *)
(* part of the state: they only advance the pipeline.                      *)
Advance(p) ==
  /\ pc = p
  /\ pc' = NextPhase(p)
  /\ valid' = Touch(valid, p)
  /\ UNCHANGED <<params, pcaVars, thrown, ak, iter, momentum, learning_rate,
                 max_bounds, buffers, device, nRescale, nPipeline>>

BoundingBoxKernel == Advance("BoundingBoxKernel")
ClearKernel1 == Advance("ClearKernel1")
ClearKernel2 == Advance("ClearKernel2")
SummarizationKernel == Advance("SummarizationKernel")
SortKernel == Advance("SortKernel")
get_norm == Advance("get_norm")

----------------------------------------------------------------------------
(* Tree Builder, lines 253-260.  The kernel takes one cell per split from  *)
(* the counter bottomd, downward: cell = atomicSub(bottomd, 1) - 1, and a  *)
(* cell that reaches the point range is fatal.  The number of splits       *)
(* depends on the geometry of the points and is an input here.             *)
FillBottomd_mut(old, cap) == old
FillBottomd(old, cap) == cap

CellDemand(nn, cap) ==
  IF nn = 1 THEN {0} ELSE {1, cap - nn - 1, cap - nn}

TreeBuild(bottom, d, nn) ==
  LET avail == bottom - nn - 1 IN
    IF d <= avail
      THEN [bottom |-> bottom - d, ok |-> TRUE]
      ELSE [bottom |-> IF avail >= 0 THEN nn ELSE bottom - 1, ok |-> FALSE]

TreeBuildingKernel ==
  /\ pc = "TreeBuildingKernel"
  /\ \E d \in CellDemand(n, NNODES) :
       LET r == TreeBuild(FillBottomd(bottomd, NNODES), d, n) IN
         /\ bottomd' = r.bottom
         /\ IF r.ok
              THEN /\ pc' = NextPhase("TreeBuildingKernel")
                   /\ UNCHANGED <<live, rel, thrown>>
              ELSE /\ pc' = OnThrow(pc)
                   /\ thrown' = pc
                   /\ rel' = Unwind(live, rel)
                   /\ live' = {}
  /\ valid' = Touch(valid, pc)
  /\ UNCHANGED <<params, pcaVars, ak, iter, momentum, learning_rate,
                 max_bounds, ptr, acq, VAL, Y, YY, YYden, gains_bh,
                 old_forces, rep_forces, Z_norm, sums, nRescale, nPipeline>>

----------------------------------------------------------------------------
(* Repulsion and normalization, lines 292-312.  The kernel adds its        *)
(* per-point forces to rep_forces and its raw sum to Z_norm.               *)
Memset(a) == [j \in DOMAIN a |-> 0]
Accumulate(a, f) == [j \in DOMAIN a |-> a[j] + f[j]]

RepOutputs(nn) == {[f |-> Field(nn, 1), raw |-> nn + 2]}

(* cudaMemsetAsync(Z_norm, 0, sizeof(float)), line 297 *)
ZReset_mut(z) == z
ZReset(z) == [num |-> 0, den |-> 1]

(* The kernel's atomicAdd of its raw sum to Z_norm *)
AddToZ(z, raw) == [num |-> z.num + raw * z.den, den |-> z.den]

RepulsionKernel ==
  /\ pc = "RepulsionKernel"
  /\ \E o \in RepOutputs(n) :
       /\ rep_forces' = Accumulate(Memset(rep_forces), ToWide(o.f, n, NNODES))
       /\ Z_norm' = AddToZ(ZReset(Z_norm), o.raw)
  /\ pc' = NextPhase("RepulsionKernel")
  /\ valid' = Touch(valid, pc)
  /\ UNCHANGED <<params, pcaVars, thrown, ak, iter, momentum, learning_rate,
                 max_bounds, buffers, VAL, Y, YY, YYden, gains_bh, old_forces,
                 sums, bottomd, nRescale, nPipeline>>

(* x -> 1.0f / (x - N_float), line 311 *)
Norm ==
  /\ pc = "Norm"
  /\ Z_norm' = [num |-> Z_norm.den, den |-> Z_norm.num - n * Z_norm.den]
  /\ pc' = NextPhase("Norm")
  /\ UNCHANGED <<params, pcaVars, valid, thrown, ak, iter, momentum,
                 learning_rate, max_bounds, buffers, VAL, Y, YY, YYden,
                 gains_bh, old_forces, rep_forces, sums, bottomd, nRescale,
                 nPipeline>>

(* Attraction, lines 322-327: attr_forces is the caller's Y *)
attractive_kernel_bh ==
  /\ pc = "attractive_kernel_bh"
  /\ \E f \in Fields(n) : Y' = Accumulate(Memset(Y), f)
  /\ pc' = NextPhase("attractive_kernel_bh")
  /\ valid' = Touch(valid, pc)
  /\ UNCHANGED <<params, pcaVars, thrown, ak, iter, momentum, learning_rate,
                 max_bounds, buffers, VAL, YY, YYden, gains_bh, old_forces,
                 rep_forces, Z_norm, sums, bottomd, nRescale, nPipeline>>

----------------------------------------------------------------------------
(* Integrator, lines 331-350 *)
SumsReset_mut(s) == s
SumsReset(s) == <<0, 0>>

(* The gradient of coordinate i times Z_norm.den *)
Gradient(i) ==
  early_exaggeration * Y[i] * Z_norm.den
    - Z_norm.num * rep_forces[WideOf(i, n, NNODES)]

SignAgree(d, u) == (d < 0) <=> (u < 0)

NewGain(g, d, u) ==
  Max(IF SignAgree(d, u) THEN g + GainInc ELSE (g * GainDecNum) \div GainDecDen,
      KernelGainFloor)

NewVelocity(u, g, d, lr, mom) ==
  (mom * u) \div 100 - (lr * g * d) \div (100 * Z_norm.den)

Clamp(p, b) == IF p > b THEN b ELSE IF p < -b THEN -b ELSE p

IntegrationKernel ==
  /\ pc = "IntegrationKernel"
  /\ LET g == [i \in FlatIdx(n) |->
                 NewGain(gains_bh[i], Gradient(i), old_forces[i])]
         u == [i \in FlatIdx(n) |->
                 NewVelocity(old_forces[i], g[i], Gradient(i), learning_rate,
                             momentum)]
         pos == [j \in WideIdx(n, NNODES) |->
                   LET i == IF j < n THEN j ELSE j - NNODES - 1 + n IN
                     Clamp(YY[j] + u[i] * YYden, max_bounds * YYden)]
         s0 == SumsReset(sums)
     IN
       /\ gains_bh' = g
       /\ old_forces' = u
       /\ YY' = pos
       /\ sums' = << s0[1] + SumRange(pos, 0, n - 1),
                     s0[2] + SumRange(pos, NNODES + 1, NNODES + n) >>
  /\ pc' = NextPhase("IntegrationKernel")
  /\ valid' = Touch(valid, pc)
  /\ UNCHANGED <<params, pcaVars, thrown, ak, iter, momentum, learning_rate,
                 max_bounds, buffers, VAL, Y, YYden, rep_forces, Z_norm,
                 bottomd, nRescale, nPipeline>>

(* sums * div_N, then YY -= sums: (P - S/n) / YYden = (n.P - S) / (n.YYden) *)
mean_centre ==
  /\ pc = "mean_centre"
  /\ YY' = [j \in WideIdx(n, NNODES) |->
              n * YY[j] - (IF j < n THEN sums[1] ELSE sums[2])]
  /\ YYden' = n * YYden
  /\ pc' = NextPhase("mean_centre")
  /\ valid' = Touch(valid, pc)
  /\ UNCHANGED <<params, pcaVars, thrown, ak, iter, momentum, learning_rate,
                 max_bounds, buffers, VAL, Y, gains_bh, old_forces,
                 rep_forces, Z_norm, sums, bottomd, nRescale, nPipeline>>

(* max_bounds += 0.01f, line 355, and iter++ *)
GrowBound_mut(b) == b
GrowBound(b) == b + 1

EndIteration ==
  /\ pc = "EndIteration"
  /\ max_bounds' = GrowBound(max_bounds)
  /\ iter' = iter + 1
  /\ nPipeline' = nPipeline + 1
  /\ pc' = NextPhase("EndIteration")
  /\ UNCHANGED <<params, pcaVars, valid, thrown, ak, momentum, learning_rate,
                 buffers, device, nRescale>>

----------------------------------------------------------------------------
(* Lines 359-362: copyAsync(Y, YY, n) and copyAsync(Y + n, YY + NNODES + 1, *)
(* n)                                                                      *)
FinalCopy_mut(yy, nn, cap) ==
  [i \in FlatIdx(nn) |-> yy[WideOf((i + nn) % (2 * nn), nn, cap)]]
FinalCopy(yy, nn, cap) == [i \in FlatIdx(nn) |-> yy[WideOf(i, nn, cap)]]

CopyOut ==
  /\ pc = "copy"
  /\ Y' = FinalCopy(YY, n, NNODES)
  /\ pc' = "return"
  /\ valid' = Touch(valid, pc)
  /\ UNCHANGED <<params, pcaVars, thrown, ak, iter, momentum, learning_rate,
                 max_bounds, buffers, VAL, YY, YYden, gains_bh, old_forces,
                 rep_forces, Z_norm, sums, bottomd, nRescale, nPipeline>>

Return ==
  /\ pc = "return"
  /\ rel' = Unwind(live, rel)
  /\ live' = {}
  /\ pc' = "done"
  /\ UNCHANGED <<params, pcaVars, valid, thrown, ak, iter, momentum,
                 learning_rate, max_bounds, ptr, acq, device, nRescale,
                 nPipeline>>

Next ==
  \/ Declare \/ AliasBranch \/ PrologueFail \/ InitEmbedding
  \/ LoopEnter \/ EndExaggeration \/ LoopExit \/ PhaseFail
  \/ BoundingBoxKernel \/ ClearKernel1 \/ TreeBuildingKernel \/ ClearKernel2
  \/ SummarizationKernel \/ SortKernel \/ RepulsionKernel \/ Norm \/ get_norm
  \/ attractive_kernel_bh \/ IntegrationKernel \/ mean_centre \/ EndIteration
  \/ CopyOut \/ Return

Spec == Init /\ [][Next]_vars

----------------------------------------------------------------------------
(* pca.h: pcaFit, pcaTransform, pcaInverseTransform, pcaFitTransform.      *)
(* prms is the caller's paramsPCA; every entry point takes it by value, so *)
(* fitPrms, the copy pcaFit works on, is a separate object.  written is    *)
(* the set of the caller's arrays written so far, used the n_components    *)
(* each step worked with (0: the step did not run).                        *)
EntryPoints == {"pcaFit", "pcaTransform", "pcaInverseTransform",
                "pcaFitTransform"}

ParamsPCA == [n_rows : 0 .. MaxDim, n_cols : 0 .. MaxDim,
              n_components : 0 .. (MaxDim + 1), whiten : BOOLEAN]

(* Barnes_Hut is not running *)
BarnesHutIdle ==
  /\ n = 1
  /\ blocks = 1
  /\ max_iter = 0
  /\ exaggeration_iter = 0
  /\ min_gain = 1
  /\ min_grad_norm = 0
  /\ pca_intialization = FALSE
  /\ NNODES = NodeCapacity(1, 1)
  /\ pc = "idle"
  /\ ak = 1
  /\ iter = 0
  /\ momentum = 0
  /\ learning_rate = 0
  /\ max_bounds = 100 * 100
  /\ ptr = [p \in Pointers |-> IF p = "attr_forces" THEN "Y" ELSE "null"]
  /\ live = {}
  /\ acq = [b \in Buffers |-> 0]
  /\ rel = [b \in Buffers |-> 0]
  /\ VAL = [num |-> VAL_initial, den |-> 1]
  /\ Y = Y_entry(1)
  /\ YY = [j \in WideIdx(1, NNODES) |-> 0]
  /\ YYden = 1
  /\ gains_bh = [i \in FlatIdx(1) |-> 0]
  /\ old_forces = [i \in FlatIdx(1) |-> 0]
  /\ rep_forces = [j \in WideIdx(1, NNODES) |-> 0]
  /\ Z_norm = [num |-> 0, den |-> 1]
  /\ sums = <<7, -7>>
  /\ bottomd = 0
  /\ nRescale = 0
  /\ nPipeline = 0
  /\ thrown = "none"
  /\ valid = {"Y"}

InitPCA ==
  /\ BarnesHutIdle
  /\ prms \in ParamsPCA
  /\ entry \in EntryPoints
  /\ pcaPc = IF entry = "pcaFitTransform" THEN "pcaFit" ELSE entry
  /\ fitPrms = prms
  /\ written = {}
  /\ used = NoneUsed

(* The three ASSERTs every entry point starts with *)
ParamsOK_mut(p) == p.n_cols > 0 /\ p.n_rows > 1 /\ p.n_components > 0
ParamsOK(p) == p.n_cols > 1 /\ p.n_rows > 1 /\ p.n_components > 0

(* if (prms.n_components > prms.n_cols) prms.n_components = prms.n_cols *)
ClampComponents(p) ==
  IF p.n_components > p.n_cols THEN [p EXCEPT !.n_components = p.n_cols] ELSE p

(* Where control goes when a callee returns *)
AfterCall(f) ==
  IF entry = "pcaFitTransform"
    THEN CASE f = "pcaFit" -> "pcaTransform"
           [] f = "pcaTransform" -> "signFlip"
           [] OTHER -> "done"
    ELSE "done"

(* pcaFit, lines 80-90: the ASSERTs, then the clamp of its own copy *)
pcaFitEnter ==
  /\ pcaPc = "pcaFit"
  /\ IF ParamsOK(prms)
       THEN /\ fitPrms' = ClampComponents(prms)
            /\ pcaPc' = "pcaFit.body"
       ELSE /\ pcaPc' = "failed"
            /\ UNCHANGED fitPrms
  /\ UNCHANGED <<bhVars, prms, entry, written, used>>

(* pcaFit, lines 92-125 *)
pcaFitCompute ==
  /\ pcaPc = "pcaFit.body"
  /\ written' = written \cup {"mu", "components", "explained_var",
                              "explained_var_ratio", "singular_vals"}
  /\ used' = [used EXCEPT !.fit = fitPrms.n_components]
  /\ pcaPc' = AfterCall("pcaFit")
  /\ UNCHANGED <<bhVars, prms, entry, fitPrms>>

(* pcaTransform, lines 241-247 *)
pcaTransformEnter ==
  /\ pcaPc = "pcaTransform"
  /\ pcaPc' = IF ParamsOK(prms) THEN "pcaTransform.body" ELSE "failed"
  /\ UNCHANGED <<bhVars, prms, entry, fitPrms, written, used>>

(* pcaTransform, lines 249-291 *)
pcaTransformCompute ==
  /\ pcaPc = "pcaTransform.body"
  /\ written' = written \cup {"trans_input"}
                   \cup (IF prms.whiten THEN {"components"} ELSE {})
  /\ used' = [used EXCEPT !.transform = prms.n_components]
  /\ pcaPc' = AfterCall("pcaTransform")
  /\ UNCHANGED <<bhVars, prms, entry, fitPrms>>

(* pcaInverseTransform, lines 183-189 *)
pcaInverseTransformEnter ==
  /\ pcaPc = "pcaInverseTransform"
  /\ pcaPc' = IF ParamsOK(prms) THEN "pcaInverseTransform.body" ELSE "failed"
  /\ UNCHANGED <<bhVars, prms, entry, fitPrms, written, used>>

(* pcaInverseTransform, lines 191-211 *)
pcaInverseTransformCompute ==
  /\ pcaPc = "pcaInverseTransform.body"
  /\ written' = written \cup {"input"}
                   \cup (IF prms.whiten THEN {"components"} ELSE {})
  /\ used' = [used EXCEPT !.inverse = prms.n_components]
  /\ pcaPc' = AfterCall("pcaInverseTransform")
  /\ UNCHANGED <<bhVars, prms, entry, fitPrms>>

(* pcaFitTransform, lines 152-153 *)
signFlip ==
  /\ pcaPc = "signFlip"
  /\ written' = written \cup {"trans_input", "components"}
  /\ used' = [used EXCEPT !.flip = prms.n_components]
  /\ pcaPc' = AfterCall("signFlip")
  /\ UNCHANGED <<bhVars, prms, entry, fitPrms>>

NextPCA ==
  \/ pcaFitEnter \/ pcaFitCompute
  \/ pcaTransformEnter \/ pcaTransformCompute
  \/ pcaInverseTransformEnter \/ pcaInverseTransformCompute
  \/ signFlip

SpecPCA == InitPCA /\ [][NextPCA]_vars

----------------------------------------------------------------------------
InPipeline == pc \in Range(Pipeline)
Max0(m) == IF m > 0 THEN m ELSE 0

(* The weights the run started with equal early_exaggeration times the     *)
(* current weights                                                         *)
RescaledOnce ==
  \A i \in 1 .. Len(VAL_initial) :
    VAL_initial[i] * VAL.den = early_exaggeration * VAL.num[i]

(* C1, as stated: in every full run, whatever max_iter and the horizon,    *)
(* VAL is divided by early_exaggeration exactly once, so that the initial  *)
(* weights are early_exaggeration times the final ones.                    *)
C1_ExactlyOnceAlways ==
  pc = "done" => (nRescale = 1 /\ RescaledOnce)

(* C1, amended: VAL is divided by early_exaggeration at most once, on      *)
(* entry to the iteration whose index is the horizon; a run that completes *)
(* has divided it exactly once if 0 <= horizon < max_iter and not at all   *)
(* otherwise, when VAL is returned as it was handed in.                    *)
C1_AtMostOnceAtHorizon ==
  /\ nRescale \in {0, 1}
  /\ InPipeline =>
       (nRescale = 1 <=> (0 <= exaggeration_iter /\ exaggeration_iter <= iter))
  /\ nRescale = 1 => RescaledOnce
  /\ nRescale = 0 => VAL = [num |-> VAL_initial, den |-> 1]
  /\ pc = "done" =>
       (nRescale = 1 <=>
          (0 <= exaggeration_iter /\ exaggeration_iter < max_iter))

C1_Witness ==
  pc = "done" /\ nRescale = 1 /\ nPipeline > exaggeration_iter + 1

(* C2: the Integrator gets post_learning_rate in every iteration at or     *)
(* after the horizon and pre_learning_rate in every iteration before it.   *)
C2_LearningRateSwitches ==
  pc = "IntegrationKernel" =>
    learning_rate = IF iter >= exaggeration_iter THEN post_learning_rate
                    ELSE pre_learning_rate

Component(p) ==
  CASE p = "BoundingBoxKernel" -> 1
    [] p \in {"ClearKernel1", "TreeBuildingKernel"} -> 2
    [] p \in {"ClearKernel2", "SummarizationKernel"} -> 3
    [] p = "SortKernel" -> 4
    [] p \in {"RepulsionKernel", "Norm"} -> 5
    [] p \in {"get_norm", "attractive_kernel_bh"} -> 6
    [] p \in {"IntegrationKernel", "mean_centre", "EndIteration"} -> 7
    [] OTHER -> 0

C5_PhaseOrder ==
  [][/\ (pc \in Range(Pipeline) /\ pc' \in Range(Pipeline) /\ pc' # pc) =>
          /\ Component(pc') \in {Component(pc), Component(pc) + 1}
          /\ pc = "IntegrationKernel" => pc' = "mean_centre"
          /\ pc' = "EndIteration" => pc = "mean_centre"
     /\ (pc' = "BoundingBoxKernel" /\ pc # pc') => pc = "loop"
     /\ (pc \in Range(Pipeline) /\ pc' \notin Range(Pipeline)) =>
          \/ pc' = "failed"
          \/ pc = "EndIteration" /\ pc' = "loop"
     /\ (pc = "loop" /\ pc' \in Range(Pipeline)) => pc' = "BoundingBoxKernel"
    ]_vars

C5_Witness == pc = "mean_centre" /\ iter >= 1

(* C6: max_bounds is 100 at the start and grows by 0.01 with every         *)
(* iteration: the Integrator of iteration k receives 100 + k * 0.01.       *)
C6_GrowthBound ==
  /\ max_bounds = 100 * 100 + iter
  /\ max_bounds = 100 * 100 + nPipeline

C6_Witness == pc = "IntegrationKernel" /\ iter = 2 /\ max_bounds = 10002

(* C7: after the re-centering of every iteration the n positions sum to    *)
(* zero on both axes.                                                      *)
Centred ==
  /\ SumRange(YY, 0, n - 1) = 0
  /\ SumRange(YY, NNODES + 1, NNODES + n) = 0

C7_MeanZero ==
  /\ pc = "EndIteration" => Centred
  /\ (nPipeline >= 1 /\ pc \in {"loop", "copy", "return"}) => Centred
  /\ (nPipeline >= 1 /\ pc = "done") =>
       (SumRange(Y, 0, n - 1) = 0 /\ SumRange(Y, n, 2 * n - 1) = 0)

C7_Witness ==
  /\ pc = "EndIteration"
  /\ n >= 2
  /\ iter >= 1
  /\ \E j \in WideIdx(n, NNODES) : YY[j] # 0

(* C8: no gain is ever below min_gain.                                     *)
C8_GainFloor ==
  acq["gains_bh_"] = 1 => \A i \in FlatIdx(n) : gains_bh[i] >= min_gain

(* C9: NNODES is max(2n, 1024 * blocks) rounded up to a multiple of 32,    *)
(* minus 1; the Tree Builder starts every iteration from bottomd = NNODES  *)
(* and never takes bottomd below n, so the cells it hands out lie above    *)
(* the point range [0, n) and within the capacity.                         *)
C9_TreeCapacity ==
  /\ [](/\ NNODES = ((Max(2 * n, 1024 * blocks) + 31) \div 32) * 32 - 1
        /\ NNODES >= n
        /\ pc \in {"ClearKernel2", "SummarizationKernel", "SortKernel",
                   "RepulsionKernel"} =>
             (bottomd > n /\ bottomd <= NNODES))
  /\ [][TreeBuildingKernel =>
          (bottomd' >= n /\ bottomd' <= NNODES
           /\ NNODES - bottomd' <= NNODES - n)]_vars

C9_Witness ==
  pc = "ClearKernel2" /\ iter >= 1 /\ n >= 2 /\ bottomd = n + 1

(* C10: every scratch buffer is acquired once, before the loop; whatever a *)
(* phase reads or writes is live storage; every acquired buffer is         *)
(* released exactly once when the call ends, normally or by a failure.     *)
C10_BufferLifetime ==
  /\ \A b \in Buffers : acq[b] <= 1 /\ rel[b] <= acq[b]
  /\ live = {b \in Buffers : acq[b] = 1 /\ rel[b] = 0}
  /\ pc \in (Range(Pipeline) \cup {"init", "loop", "copy", "return"}) =>
       /\ \A b \in Buffers : rel[b] = 0
       /\ \A p \in PhasePtrs(pc) : ptr[p] \in live \cup {"Y"}
       /\ {"limiter_", "maxdepthd_", "bottomd_", "radiusd_", "rep_forces_",
           "childl_", "massl_", "sortl_", "Z_norm_", "gains_bh_",
           "old_forces_", "YY_"} \subseteq live
  /\ pc \in {"done", "failed"} =>
       (live = {} /\ \A b \in Buffers : rel[b] = acq[b])

C10_Witness ==
  /\ pc = "done"
  /\ nPipeline >= 1
  /\ \A b \in {"rep_forces_", "childl_", "sortl_", "YY_"} :
       acq[b] = 1 /\ rel[b] = 1

C12_OutputLayout ==
  /\ pc = "done" =>
       /\ \A i \in 0 .. (n - 1) :
            Y[i] = YY[i] /\ Y[n + i] = YY[NNODES + 1 + i]
       /\ (pca_intialization /\ max_iter <= 0) => (Y = Y_entry(n) /\ YYden = 1)
  /\ (pca_intialization /\ nPipeline = 0 /\ pc \in {"loop", Pipeline[1]}) =>
       /\ YYden = 1
       /\ \A i \in 0 .. (n - 1) :
            YY[i] = Y_entry(n)[i] /\ YY[NNODES + 1 + i] = Y_entry(n)[n + i]

C12_Witness ==
  /\ pc = "done"
  /\ pca_intialization
  /\ nPipeline >= 2
  /\ \E i \in FlatIdx(n) : Y[i] * 1 # Y_entry(n)[i] * YYden

Min(a, b) == IF a <= b THEN a ELSE b
BadParams == prms.n_cols < 2 \/ prms.n_rows < 2 \/ prms.n_components < 1

(* C13: with n_cols < 2, n_rows < 2 or n_components < 1, pcaFit,           *)
(* pcaTransform and pcaInverseTransform fail before any of the caller's    *)
(* arrays is written; with other parameters they do not fail, and the      *)
(* only parameter any of them replaces is n_components in pcaFit, which    *)
(* becomes n_cols when it is larger.                                       *)
C13_FailFast ==
  /\ BadParams =>
       /\ written = {}
       /\ used = NoneUsed
       /\ pcaPc \in {"pcaFit", "pcaTransform", "pcaInverseTransform", "failed"}
  /\ ~BadParams => pcaPc # "failed"
  /\ pcaPc = "failed" => fitPrms = prms
  /\ fitPrms.n_rows = prms.n_rows
  /\ fitPrms.n_cols = prms.n_cols
  /\ fitPrms.whiten = prms.whiten
  /\ fitPrms.n_components \in
       {prms.n_components, Min(prms.n_components, prms.n_cols)}
  /\ used.fit \in {0, Min(prms.n_components, prms.n_cols)}
  /\ used.transform \in {0, prms.n_components}
  /\ used.inverse \in {0, prms.n_components}

C13_Witness ==
  /\ pcaPc = "failed"
  /\ entry = "pcaTransform"
  /\ prms.n_cols = 1
  /\ prms.n_rows >= 2
  /\ prms.n_components >= 1

(* C14: in every iteration the Repulsion Engine starts from a zeroed Z    *)
(* and a zeroed repulsive-force buffer, so what it leaves is this          *)
(* iteration's forces and raw sum alone, and the Integrator receives       *)
(* 1 / (raw sum - n), n subtracted once.                                   *)
C14_FreshNormalization ==
  /\ pc = "Norm" =>
       \E o \in RepOutputs(n) :
         /\ Z_norm = [num |-> o.raw, den |-> 1]
         /\ rep_forces = ToWide(o.f, n, NNODES)
  /\ pc \in {"get_norm", "attractive_kernel_bh", "IntegrationKernel"} =>
       \E o \in RepOutputs(n) :
         /\ Z_norm.num * (o.raw - n) = Z_norm.den
         /\ Z_norm.den # 0
         /\ rep_forces = ToWide(o.f, n, NNODES)

C14_Witness ==
  /\ pc = "IntegrationKernel"
  /\ nPipeline >= 1
  /\ Z_norm = [num |-> 1, den |-> 2]

(* C15: no statement reads an array whose storage was overwritten under  *)
(* another name since the array was last written, in the first iteration   *)
(* and in the later ones; norm, norm_add1 and sums lie in the child array  *)
(* below index 4n, and the child slots of the cells the tree uses lie at   *)
(* 4n and above.                                                           *)
C15_DisjointLiveRanges ==
  /\ PhaseNeeds(pc, pca_intialization) \subseteq valid
  /\ \A a \in {"norm", "norm_add1", "sums"} :
       /\ Extent(a, n, blocks, NNODES).buf = "childl_"
       /\ Extent(a, n, blocks, NNODES).hi < 4 * n
       /\ ~Overlap(Extent(a, n, blocks, NNODES),
                   Extent("childl", n, blocks, NNODES))
  /\ pc \in {"ClearKernel2", "SummarizationKernel", "SortKernel",
             "RepulsionKernel"} =>
       /\ 4 * bottomd >= 4 * n
       /\ 4 * NNODES + 3 <= Extent("childl", n, blocks, NNODES).hi

C15_Witness ==
  /\ pc = "SortKernel"
  /\ nPipeline >= 1
  /\ {"startl", "countl", "childl"} \subseteq valid
  /\ "rep_forces" \notin valid
  /\ "attr_forces" \in valid

(* C16: when pcaFitTransform returns, the fit, the transform and the sign *)
(* flip have all worked with min(n_components, n_cols) components.         *)
C16_SameComponents ==
  (entry = "pcaFitTransform" /\ pcaPc = "done") =>
    /\ used.fit = Min(prms.n_components, prms.n_cols)
    /\ used.transform = Min(prms.n_components, prms.n_cols)
    /\ used.flip = Min(prms.n_components, prms.n_cols)

FairSpec == Init /\ [][Next]_vars /\ WF_vars(Next)

====
